---------------------------- MODULE Spec2Model ----------------------------
(***************************************************************************)
(* A model of the GSS-Solver repository: the GSSolver class of             *)
(* gss_solver.py and the /api/solve handler of main.py.                    *)
(*                                                                         *)
(* Floating-point numbers are modelled as fixed-point numbers: abscissas   *)
(* (a, b, x1, x2, tol) are integers, one grid step each, and every         *)
(* arithmetic result is rounded to the nearest grid point, as a float      *)
(* operation rounds to the nearest representable number.  Objective values *)
(* are records [k, v]: a finite value v (in thousandths), NaN, or an       *)
(* infinity with sign v.                                                   *)
(***************************************************************************)
EXTENDS Integers, Sequences, FiniteSets, TLC

VARIABLES
    solver,   \* the fields of one GSSolver object
    pc,       \* pc[t]: where invocation (thread) t stands
    frame,    \* frame[t]: the locals of t's golden_section_search call
    http      \* http[t]: the request t serves and the response it built

vars == <<solver, pc, frame, http>>

-----------------------------------------------------------------------------
(* Bounds of the model *)

\* a and b are drawn from -MaxAbs, 0, 1 and MaxAbs
MaxAbs == 5
\* tol is drawn from -1 .. MaxTol
MaxTol == 1
\* the iteration count nit the external optimizer reports is in 1 .. MaxNit
MaxNit == 1

-----------------------------------------------------------------------------
(* Numbers *)

\* n / d rounded to the nearest integer, for n >= 0 and d > 0
RoundDiv(n, d) == (2 * n + d) \div (2 * d)

\* n / d rounded to the nearest integer, for any n and d # 0
RoundQuot(n, d) ==
    LET s  == IF (n < 0) = (d < 0) THEN 1 ELSE -1
        an == IF n < 0 THEN -n ELSE n
        ad == IF d < 0 THEN -d ELSE d
    IN  s * RoundDiv(an, ad)

Fin(v) == [k |-> "fin", v |-> v]
NaN == [k |-> "nan", v |-> 0]
NegInf == [k |-> "inf", v |-> -1]
\* the outcome of an evaluation that raises instead of returning a number
Raises == [k |-> "raise", v |-> 0]

IsFinite(u) == u.k = "fin"

\* unary minus on a float
Neg(u) == IF u.k = "nan" \/ u.k = "raise" THEN u ELSE [k |-> u.k, v |-> -u.v]

\* u < v on floats: false when either side is NaN
Less(u, v) ==
    CASE u.k = "nan" \/ v.k = "nan" -> FALSE
      [] u.k = "fin" /\ v.k = "fin" -> u.v < v.v
      [] u.k = "inf" /\ v.k = "inf" -> u.v < v.v
      [] u.k = "inf" -> u.v < 0
      [] OTHER -> v.v > 0

-----------------------------------------------------------------------------
(* Expressions and their compiled functions (parse_function) *)

\* the expressions a caller passes; "x+" does not parse
Exprs == {"(x-2)**2", "log(x)", "1/x", "x+"}

\* the expression solve_function builds for mode = maximize
Negated(e) == "-(" \o e \o ")"

\* 1000 * ln(x) for x in 1 .. 8, rounded
LnTable == <<0, 693, 1099, 1386, 1609, 1792, 1946, 2079>>

\* sympify accepts the expression
Parses(e) == e \notin {"x+", Negated("x+")}

\* the value of a caller's expression at x, as numpy computes it
EvalExpr(e, x) ==
    CASE e = "(x-2)**2" -> Fin(1000 * (x - 2) * (x - 2))
      [] e = "log(x)"   -> IF x < 0 THEN NaN
                           ELSE IF x = 0 THEN NegInf
                           ELSE Fin(LnTable[x])
      [] e = "1/x"      -> IF x = 0 THEN Raises ELSE Fin(RoundQuot(1000, x))

\* the value the lambdified expression returns at x
Eval(e, x) ==
    IF e \in Exprs THEN EvalExpr(e, x)
    ELSE Neg(EvalExpr(CHOOSE d \in Exprs : Negated(d) = e, x))

-----------------------------------------------------------------------------
(* GSSolver *)

MaxIterations == 100

\* golden_ratio = 0.381966, in millionths
GoldenRatio == 381966

\* x1 = a + (1 - golden_ratio) * (b - a)
ProbeX1(a, b) == a + RoundDiv((1000000 - GoldenRatio) * (b - a), 1000000)

\* x2 = a + golden_ratio * (b - a)
ProbeX2(a, b) == a + RoundDiv(GoldenRatio * (b - a), 1000000)

\* GSSolver.__init__
GSSolverInit ==
    [iterations |-> <<>>, result |-> <<>>, function_str |-> "",
     bounds |-> <<>>, tolerance |-> <<>>]

NoFrame ==
    [func_str |-> "", a |-> 0, b |-> 0, tol |-> 0, args |-> <<>>,
     iteration |-> 0, evals |-> 0, compiled |-> FALSE, exc |-> "", ret |-> <<>>]

NoHttp == [req |-> <<>>, resp |-> <<>>]

Threads == {1, 2}

\* mutant of InvalidBounds: equal bounds pass the validation
InvalidBoundsStrict(a, b) == a > b

\* line 67: if a >= b
InvalidBounds(a, b) == a >= b

\* lines 61-68, on the GSSolver object self: store the arguments, clear the
\* trace, validate the bounds
Begin(t, self, func_str, a, b, tol) ==
    /\ solver' = [self EXCEPT !.function_str = func_str,
                              !.bounds = <<a, b>>,
                              !.tolerance = <<tol>>,
                              !.iterations = <<>>]
    /\ frame' = [frame EXCEPT ![t] =
                   [NoFrame EXCEPT !.func_str = func_str, !.a = a, !.b = b,
                                   !.tol = tol, !.args = <<func_str, a, b, tol>>,
                                   !.exc = IF InvalidBounds(a, b)
                                           THEN "ValueError" ELSE ""]]
    /\ pc' = [pc EXCEPT ![t] = IF InvalidBounds(a, b) THEN "raised" ELSE "parse"]

\* line 71: func = self.parse_function(func_str)
Parse(t) ==
    /\ pc[t] = "parse"
    /\ frame' = [frame EXCEPT ![t].compiled = TRUE,
                              ![t].exc = IF Parses(frame[t].func_str)
                                         THEN "" ELSE "ValueError"]
    /\ pc' = [pc EXCEPT ![t] = IF Parses(frame[t].func_str)
                               THEN "minimize" ELSE "raised"]
    /\ UNCHANGED <<solver, http>>

\* What minimize_scalar may do.  SciPy is not part of the repository: it may
\* raise (a ValueError, as the releases that reject bounds with
\* method='golden' do) or return a point x after nit iterations; evaluating func
\* at x may itself raise.  Of the evaluations it makes, the one that yields
\* result.fun is counted in evals.
ScipyOutcomes(a, b) ==
    {[kind |-> "raise", x |-> 0, nit |-> 0]}
    \cup {[kind |-> "ok", x |-> x, nit |-> n] : x \in {a, b}, n \in 1 .. MaxNit}

\* lines 74-95: minimize_scalar, then self.result
Minimize(t) ==
    /\ pc[t] = "minimize"
    /\ \E o \in ScipyOutcomes(frame[t].a, frame[t].b) :
         LET f == frame[t]
             fun == Eval(f.func_str, o.x)
         IN  IF o.kind = "raise" \/ fun = Raises
             THEN /\ frame' = [frame EXCEPT
                                 ![t].exc = IF o.kind = "raise" THEN "ValueError"
                                            ELSE "ZeroDivisionError",
                                 ![t].evals = IF o.kind = "raise" THEN 0 ELSE 1]
                  /\ pc' = [pc EXCEPT ![t] = "raised"]
                  /\ UNCHANGED solver
             ELSE /\ solver' = [solver EXCEPT !.result =
                                  <<[x_min |-> o.x, f_min |-> fun,
                                     num_iterations |-> o.nit,
                                     tolerance |-> f.tol,
                                     function |-> f.func_str,
                                     bounds |-> [a |-> f.a, b |-> f.b]]>>]
                  /\ frame' = [frame EXCEPT ![t].evals = 1]
                  /\ pc' = [pc EXCEPT ![t] = "loop"]
    /\ UNCHANGED http

\* mutant of LoopTest: the cap is tested one iteration late
LoopTestLateCap(a, b, tol, iteration) ==
    (b - a) > tol /\ iteration <= MaxIterations

\* line 115: the loop test
LoopTest(a, b, tol, iteration) == (b - a) > tol /\ iteration < MaxIterations

\* mutant of UpdateBounds: the else branch is missing
UpdateBoundsNoElse(a, b, x1, x2, f_x1, f_x2) ==
    IF Less(f_x1, f_x2) THEN <<a, x2>> ELSE <<a, b>>

\* lines 138-141: the bound update, as the next <<a, b>>
UpdateBounds(a, b, x1, x2, f_x1, f_x2) ==
    IF Less(f_x1, f_x2) THEN <<a, x2>> ELSE <<x1, b>>

\* lines 126-135: the record appended
IterationRecord(iteration, a, b, x1, x2, f_x1, f_x2) ==
    [iteration |-> iteration, a |-> a, b |-> b, x1 |-> x1, x2 |-> x2,
     f_x1 |-> f_x1, f_x2 |-> f_x2, interval_width |-> b - a]

\* lines 115-141: one iteration of _generate_iteration_details
Iterate(t) ==
    /\ pc[t] = "loop"
    /\ LoopTest(frame[t].a, frame[t].b, frame[t].tol, frame[t].iteration)
    /\ LET f == frame[t]
           it == f.iteration + 1
           x1 == ProbeX1(f.a, f.b)
           x2 == ProbeX2(f.a, f.b)
           f_x1 == Eval(f.func_str, x1)
           f_x2 == Eval(f.func_str, x2)
           nb == UpdateBounds(f.a, f.b, x1, x2, f_x1, f_x2)
       IN  IF f_x1 = Raises \/ f_x2 = Raises
           THEN /\ frame' = [frame EXCEPT
                               ![t].iteration = it,
                               ![t].evals = f.evals + (IF f_x1 = Raises THEN 1 ELSE 2),
                               ![t].exc = "ZeroDivisionError"]
                /\ pc' = [pc EXCEPT ![t] = "raised"]
                /\ UNCHANGED solver
           ELSE /\ solver' = [solver EXCEPT !.iterations =
                                Append(solver.iterations,
                                       IterationRecord(it, f.a, f.b, x1, x2, f_x1, f_x2))]
                /\ frame' = [frame EXCEPT ![t].iteration = it,
                                          ![t].evals = f.evals + 2,
                                          ![t].a = nb[1],
                                          ![t].b = nb[2]]
                /\ UNCHANGED pc
    /\ UNCHANGED http

\* line 115 false, then line 100: return self.result
Return(t) ==
    /\ pc[t] = "loop"
    /\ ~LoopTest(frame[t].a, frame[t].b, frame[t].tol, frame[t].iteration)
    /\ frame' = [frame EXCEPT ![t].ret = solver.result]
    /\ pc' = [pc EXCEPT ![t] = "returned"]
    /\ UNCHANGED <<solver, http>>

\* _generate_iteration_details as a function of its arguments: the records it
\* appends when no other call touches self.iterations
RECURSIVE TraceFrom(_, _, _, _, _)
TraceFrom(e, a, b, tol, iteration) ==
    IF ~LoopTest(a, b, tol, iteration) THEN <<>>
    ELSE LET x1 == ProbeX1(a, b)
             x2 == ProbeX2(a, b)
             f_x1 == Eval(e, x1)
             f_x2 == Eval(e, x2)
             nb == UpdateBounds(a, b, x1, x2, f_x1, f_x2)
         IN  IF f_x1 = Raises \/ f_x2 = Raises THEN <<>>
             ELSE <<IterationRecord(iteration + 1, a, b, x1, x2, f_x1, f_x2)>>
                  \o TraceFrom(e, nb[1], nb[2], tol, iteration + 1)

-----------------------------------------------------------------------------
(* A caller that holds one GSSolver and calls it directly *)

Bounds == {-MaxAbs, 0, 1, MaxAbs} \X {1, MaxAbs}
Tols == (-1) .. MaxTol

\* solver.golden_section_search(func_str, a, b, tol)
DirectCall(t) ==
    /\ pc[t] = "idle"
    /\ \E e \in Exprs, ab \in Bounds, tol \in Tols :
         Begin(t, solver, e, ab[1], ab[2], tol)
    /\ UNCHANGED http

\* the caller has the result, or the exception, and drops the call's frame
CallerDone(t) ==
    /\ pc[t] \in {"returned", "raised"}
    /\ http[t] = NoHttp
    /\ pc' = [pc EXCEPT ![t] = "idle"]
    /\ frame' = [frame EXCEPT ![t] = NoFrame]
    /\ UNCHANGED <<solver, http>>

Init ==
    /\ solver = GSSolverInit
    /\ pc = [t \in Threads |-> IF t = 1 THEN "idle" ELSE "off"]
    /\ frame = [t \in Threads |-> NoFrame]
    /\ http = [t \in Threads |-> NoHttp]

Step(t) ==
    \/ DirectCall(t)
    \/ Parse(t)
    \/ Minimize(t)
    \/ Iterate(t)
    \/ Return(t)
    \/ CallerDone(t)

Next == \E t \in Threads : Step(t)

\* one caller, calling the same GSSolver again and again
Spec == Init /\ [][Next]_vars

\* the interpreter runs a started call on: no step of it waits for anything
LiveSpec == Spec /\ \A t \in Threads : WF_vars(Iterate(t)) /\ WF_vars(Return(t))

-----------------------------------------------------------------------------
(* Two threads calling one GSSolver *)

ConcBounds == {-MaxAbs, 0} \X {MaxAbs}

ConcCall(t) ==
    /\ pc[t] = "idle"
    /\ \E ab \in ConcBounds : Begin(t, solver, "(x-2)**2", ab[1], ab[2], MaxTol)
    /\ UNCHANGED http

ConcInit ==
    /\ solver = GSSolverInit
    /\ pc = [t \in Threads |-> "idle"]
    /\ frame = [t \in Threads |-> NoFrame]
    /\ http = [t \in Threads |-> NoHttp]

ConcStep(t) ==
    \/ ConcCall(t)
    \/ Parse(t)
    \/ Minimize(t)
    \/ Iterate(t)
    \/ Return(t)
    \/ CallerDone(t)

ConcNext == \E t \in Threads : ConcStep(t)

ConcSpec == ConcInit /\ [][ConcNext]_vars

-----------------------------------------------------------------------------
(* main.py: POST /api/solve *)

Modes == {"minimize", "maximize"}

\* line 65
FuncToSolve(data) ==
    IF data.mode = "maximize" THEN Negated(data.func_str) ELSE data.func_str

\* gss_solver.golden_section_search, the function main.py imports: the result
\* of a search on a GSSolver of its own, with the iteration trace in it
SearchResult(result, iterations) ==
    [x_min |-> result.x_min, f_min |-> result.f_min,
     num_iterations |-> result.num_iterations, iterations |-> iterations]

\* lines 79-80, on one iteration record
UnnegateRecord(it) == [it EXCEPT !.f_x1 = Neg(it.f_x1), !.f_x2 = Neg(it.f_x2)]

\* mutant of Unnegate: f_x2 of the iteration records is left negated
UnnegateButFx2(data, result) ==
    IF data.mode = "maximize"
    THEN [result EXCEPT !.f_min = Neg(result.f_min),
                        !.iterations = [i \in 1 .. Len(result.iterations) |->
                            [result.iterations[i] EXCEPT
                               !.f_x1 = Neg(result.iterations[i].f_x1)]]]
    ELSE result

\* lines 76-80
Unnegate(data, result) ==
    IF data.mode = "maximize"
    THEN [result EXCEPT !.f_min = Neg(result.f_min),
                        !.iterations = [i \in 1 .. Len(result.iterations) |->
                                          UnnegateRecord(result.iterations[i])]]
    ELSE result

\* lines 99-105, without plot_data
ResponseData(result) ==
    [status |-> 200, x_min |-> result.x_min, f_min |-> result.f_min,
     iterations |-> result.iterations, num_iterations |-> result.num_iterations]

\* lines 113-117
ErrorStatus(exc) == IF exc = "ValueError" THEN 400 ELSE 500

\* the GSSolver the imported golden_section_search runs the search on: one
\* constructed for the call
WrapperSolver == GSSolverInit

\* lines 63-73: the request comes in and the search is called
HttpRequest(t) ==
    /\ pc[t] = "idle"
    /\ \E e \in Exprs, ab \in Bounds, tol \in Tols, mode \in Modes :
         LET data == [func_str |-> e, a |-> ab[1], b |-> ab[2],
                      tol |-> tol, mode |-> mode]
         IN  /\ http' = [http EXCEPT ![t] = [req |-> <<data>>, resp |-> <<>>]]
             /\ Begin(t, WrapperSolver, FuncToSolve(data), data.a, data.b, data.tol)

\* lines 75-117: the response.  The plot data (lines 82-96) and the history
\* entry (lines 107-109) are left out: no expression of Exprs fails to plot.
Respond(t) ==
    /\ pc[t] \in {"returned", "raised"}
    /\ http[t].req # <<>>
    /\ LET data == http[t].req[1]
           resp == IF pc[t] = "raised"
                   THEN [status |-> ErrorStatus(frame[t].exc)]
                   ELSE ResponseData(Unnegate(data,
                            SearchResult(frame[t].ret[1], solver.iterations)))
       IN  http' = [http EXCEPT ![t].resp = <<resp>>]
    /\ pc' = [pc EXCEPT ![t] = "responded"]
    /\ UNCHANGED <<solver, frame>>

\* the response is sent; the request's objects are dropped
HttpDone(t) ==
    /\ pc[t] = "responded"
    /\ pc' = [pc EXCEPT ![t] = "idle"]
    /\ frame' = [frame EXCEPT ![t] = NoFrame]
    /\ http' = [http EXCEPT ![t] = NoHttp]
    /\ solver' = GSSolverInit

HttpStep(t) ==
    \/ HttpRequest(t)
    \/ Parse(t)
    \/ Minimize(t)
    \/ Iterate(t)
    \/ Return(t)
    \/ Respond(t)
    \/ HttpDone(t)

HttpNext == \E t \in Threads : HttpStep(t)

\* the server, one request at a time
HttpSpec == Init /\ [][HttpNext]_vars

-----------------------------------------------------------------------------
(* Properties *)

Records == solver.iterations
NRecords == Len(solver.iterations)

\* e is finite on a .. b, strictly decreasing up to m and strictly increasing
\* from m on: unimodal with minimizer m
Unimodal(e, a, b, m) ==
    /\ m \in a .. b
    /\ \A x \in a .. b : IsFinite(Eval(e, x))
    /\ \A x \in a .. (b - 1) :
         IF x < m THEN Less(Eval(e, x + 1), Eval(e, x))
                  ELSE Less(Eval(e, x), Eval(e, x + 1))

\* the search whose arguments the solver stores has a unimodal objective with
\* minimizer m inside its initial interval
UnimodalSearch(m) ==
    /\ solver.bounds # <<>>
    /\ Parses(solver.function_str)
    /\ solver.bounds[1] < solver.bounds[2]
    /\ Unimodal(solver.function_str, solver.bounds[1], solver.bounds[2], m)

\* C1: for an objective unimodal on [a, b] with minimizer x* in [a, b], the
\* bracket of every iteration record contains x*.
C1_BracketKeepsMinimizer ==
    \A m \in (-MaxAbs) .. MaxAbs :
        UnimodalSearch(m) =>
            \A i \in 1 .. NRecords : Records[i].a <= m /\ m <= Records[i].b

\* C2: every iteration record satisfies a <= x1 < x2 <= b.
C2_ProbesOrdered ==
    \A i \in 1 .. NRecords :
        /\ Records[i].a <= Records[i].x1
        /\ Records[i].x1 < Records[i].x2
        /\ Records[i].x2 <= Records[i].b

\* C3: a search that returns has evaluated the objective at most
\* iteration_count + 2 times.
C3_EvaluationBudget ==
    \A t \in Threads :
        pc[t] = "returned" => frame[t].evals <= NRecords + 2

\* C4: a non-finite objective value aborts the search: no iteration record
\* holds a NaN or an infinity (the values of a record are the ones line 138
\* compares to update the bounds).
C4_NonFiniteAborts ==
    \A i \in 1 .. NRecords :
        IsFinite(Records[i].f_x1) /\ IsFinite(Records[i].f_x2)

\* the trace never holds more than max_iterations records, and a call that
\* has left the loop has b - a <= tol or max_iterations records
C5_Bounded ==
    /\ NRecords <= MaxIterations
    /\ \A t \in Threads :
          pc[t] = "returned" =>
              \/ frame[t].b - frame[t].a <= frame[t].tol
              \/ NRecords = MaxIterations

\* C5: the search loop terminates, and when it does the interval width is
\* <= tolerance or exactly max_iterations (100) records were made; the trace
\* never holds more than 100 records.
C5_Terminates ==
    /\ []C5_Bounded
    /\ \A t \in Threads : (pc[t] = "loop") ~> (pc[t] # "loop")

\* a call with a < b and tolerance > 0 returned after some iterations, its
\* interval no wider than the tolerance
C5_Witness ==
    \E t \in Threads :
        /\ pc[t] = "returned"
        /\ frame[t].tol > 0
        /\ NRecords >= 3
        /\ NRecords < MaxIterations
        /\ frame[t].b - frame[t].a <= frame[t].tol

\* C6, as claimed: of two consecutive iteration records the later one's
\* interval_width is strictly less than the earlier one's.
C6_StrictlyShrinks ==
    \A i \in 1 .. (NRecords - 1) :
        Records[i + 1].interval_width < Records[i].interval_width

\* C6, amended: the later interval_width is never greater than the earlier
\* one, and strictly less whenever the earlier one is positive, which it is
\* in every record of a search with tolerance >= 0.
C6_ShrinksWhilePositive ==
    \A i \in 1 .. (NRecords - 1) :
        /\ Records[i + 1].interval_width <= Records[i].interval_width
        /\ Records[i].interval_width > 0 =>
              Records[i + 1].interval_width < Records[i].interval_width
        /\ solver.tolerance[1] >= 0 =>
              /\ Records[i].interval_width > 0
              /\ Records[i + 1].interval_width < Records[i].interval_width

\* a search with tolerance >= 0 took the a = x1 branch on a tie, and the
\* strict branch too, and recorded the narrower intervals
C6_Witness ==
    /\ solver.tolerance # <<>>
    /\ solver.tolerance[1] >= 0
    /\ \E i, j \in 1 .. (NRecords - 1) :
          /\ Records[i].f_x1 = Records[i].f_x2
          /\ Records[i + 1].a = Records[i].x1
          /\ Less(Records[j].f_x1, Records[j].f_x2)
          /\ Records[j + 1].b = Records[j].x2

C8_BadBoundsRejected ==
    \A t \in Threads :
        (http[t].req # <<>> /\ http[t].req[1].a >= http[t].req[1].b) =>
            /\ pc[t] \in {"raised", "responded"}
            /\ frame[t].exc = "ValueError"
            /\ ~frame[t].compiled
            /\ frame[t].evals = 0
            /\ solver.result = <<>>
            /\ pc[t] = "responded" => http[t].resp[1] = [status |-> 400]

\* a request with a > b was answered
C8_Witness ==
    \E t \in Threads :
        /\ pc[t] = "responded"
        /\ http[t].req[1].a > http[t].req[1].b
        /\ http[t].resp[1].status = 400

\* C9: between calls, the stored result, trace, function_str, bounds and
\* tolerance describe one search, the most recent successful one.
C9_StoredStateOfOneSearch ==
    ((\A t \in Threads : pc[t] \in {"idle", "off"}) /\ solver.result # <<>>) =>
        LET r == solver.result[1]
        IN  /\ solver.function_str = r.function
            /\ solver.bounds = <<r.bounds.a, r.bounds.b>>
            /\ solver.tolerance = <<r.tolerance>>
            /\ Records = TraceFrom(r.function, r.bounds.a, r.bounds.b,
                                   r.tolerance, 0)

\* C10: of two concurrent invocations each returns the result of its own
\* search, and leaves the trace its own search makes when run alone.
C10_InvocationsIsolated ==
    [][\A t \in Threads :
          (pc[t] = "loop" /\ pc'[t] = "returned") =>
              LET args == frame[t].args
                  r == frame'[t].ret[1]
              IN  /\ <<r.function, r.bounds.a, r.bounds.b, r.tolerance>> = args
                  /\ Records = TraceFrom(args[1], args[2], args[3], args[4], 0)
      ]_vars

=============================================================================
